---- MODULE Spec2Model ----
(***************************************************************************)
(* A model of oilmm/ilmm.py: the class ILMMPP (the instantaneous linear    *)
(* mixing model written against a stheno graph) and its two helpers        *)
(* _per_output and _matmul.                                                *)
(*                                                                         *)
(* A stheno Graph is an append-only registry of processes.  It is modelled *)
(* as a sequence of nodes; a process (GP) is the index of its node.  Every *)
(* operation of the code that builds a process (GP(kernel, graph=...),     *)
(* number * process, process + process, 0 + process, process | obs)        *)
(* appends one node to the graph the operands live in.  Graph objects live *)
(* in the heap `graphs`; a model holds the index of its graph, so that two *)
(* models share a graph exactly when they hold the same index.             *)
(*                                                                         *)
(* Python indices are 0-based; sequences here are 1-based.  The output     *)
(* index i that _per_output yields is kept 0-based, as in the code, and    *)
(* self.ys[i] is ys[i + 1] here.                                           *)
(*                                                                         *)
(* What stheno computes from a process (the density of graph.logpdf, the   *)
(* numbers of marginals()) is kept symbolic.  ILMMPP.sample reads the same *)
(* processes as predict and builds none; it is left out.                   *)
(***************************************************************************)
EXTENDS Integers, Sequences, FiniteSets, TLC

VARIABLES graphs, models, data, out

vars == <<graphs, models, data, out>>

(***************************************************************************)
(* Bounds of the model.                                                    *)
(***************************************************************************)
\* most output rows of H / columns of y
MaxP == 2
\* most latent processes / columns of H
MaxM == 2
\* most rows of a data set (x, y) handed to _per_output and logpdf, and most
\* points of a predict query
MaxN == 2
\* most rows of a data set handed to a condition call of a chain of calls
MaxRows == 1
\* most ILMMPP objects alive
MaxModels == 3
\* most ILMMPP objects alive where predictions are made
MaxQueried == 2
\* most models built from kernels (each with a fresh Graph)
MaxRoots == 2

(***************************************************************************)
(* Values.                                                                 *)
(***************************************************************************)
\* the missing entry of y: B.isnan(v) is v = NaN
NaN == -1
\* the input locations
Locs == {1, 2}
\* the entries of a mixing matrix
HVals == {0, 1, 2}
\* the observation noises handed to the constructor
NoiseObsVals == {5}

isnan(v) == v = NaN

\* an n-by-p matrix: its shape (B.shape) and its rows
Mat(n, p, d) == [n |-> n, p |-> p, d |-> d]

\* the p-by-m mixing matrices handed to the constructor: one per seed s, its
\* entries running through HVals row by row, so that every matrix holds a
\* zero weight and unequal weights
MixingMatrix(p, m, s) ==
  Mat(p, m, [j \in 1..p |-> [i \in 1..m |->
               (s + (j - 1) * m + (i - 1)) % Cardinality(HVals)]])

MixingMatrices(ps, ms) ==
  { MixingMatrix(p, m, s) : p \in ps, m \in ms, s \in HVals }

\* the observed value in row r of output column i (1-based): every present
\* entry of y is distinct, so that a subset of y names its rows
YValue(r, i) == 10 * r + i

\* the n-by-p data matrices, one per pattern of missing entries
DataMatrices(n, p) ==
  { Mat(n, p, [r \in 1..n |-> [i \in 1..p |->
                 IF miss[r][i] THEN NaN ELSE YValue(r, i)]]) :
    miss \in [1..n -> [1..p -> BOOLEAN]] }

\* the data sets (x, y): x of n locations, y n-by-p with missing entries
Data(ns, ps) ==
  UNION { { [x |-> x, y |-> y] : x \in [1..n -> Locs], y \in DataMatrices(n, p) } :
          n \in ns, p \in ps }

NoData == [x |-> <<>>, y |-> Mat(0, 0, <<>>)]

\* the kernels list handed to the first constructor: m distinct kernels
Kernels(m) == [i \in 1..m |-> [kind |-> "kernel", v |-> i]]

\* a latent-noise vector of length len, its entries distinct
Noises(len) == [i \in 1..len |-> 10 + i]

\* noise * Delta()
Delta(noise) == [kind |-> "delta", v |-> noise]

(***************************************************************************)
(* The stheno graph operations the code uses.  Each returns the grown      *)
(* graph g and the index id of the new process.                            *)
(***************************************************************************)
NoKernel == [kind |-> "none", v |-> 0]

Node(op, kern, c, l, r, obs) ==
  [op |-> op, kern |-> kern, c |-> c, l |-> l, r |-> r, obs |-> obs]

\* registering a process in a graph
GraphAdd(g, node) == [g |-> Append(g, node), id |-> Len(g) + 1]

\* GP(kernel, graph=graph)
NewGP(g, kern) == GraphAdd(g, Node("gp", kern, 0, 0, 0, <<>>))

\* c * x for a number c and a process x
Mul(g, c, x) == GraphAdd(g, Node("mul", NoKernel, c, x, 0, <<>>))

\* a + b for two processes
Add(g, a, b) == GraphAdd(g, Node("add", NoKernel, 0, a, b, <<>>))

\* c + x for a number c and a process x (the `0 +=` of _matmul)
Shift(g, c, x) == GraphAdd(g, Node("shift", NoKernel, c, x, 0, <<>>))

\* conditioning that overwrites the process instead of registering a new one
PosteriorInPlace(g, x, obs) ==
  [g |-> [g EXCEPT ![x] = Node("post", NoKernel, 0, 0, 0, obs)], id |-> x]

\* x | obs
Posterior(g, x, obs) == GraphAdd(g, Node("post", NoKernel, 0, x, 0, obs))

(***************************************************************************)
(* _per_output(x, y)                                                       *)
(***************************************************************************)
\* y[:, i] for a 0-based column i
Column(y, i) == [r \in 1..y.n |-> y.d[r][i + 1]]

\* the mask without its negation
AvailableNot(yi) == [r \in 1..Len(yi) |-> isnan(yi[r])]

\* ~B.isnan(yi)
Available(yi) == [r \in 1..Len(yi) |-> ~isnan(yi[r])]

\* v[mask]: boolean-mask indexing keeps the rows whose mask is true, in order
RECURSIVE MaskFrom(_, _, _)
MaskFrom(v, mask, r) ==
  IF r > Len(v) THEN <<>>
  ELSE (IF mask[r] THEN <<v[r]>> ELSE <<>>) \o MaskFrom(v, mask, r + 1)

\* indexing that ignores the mask
Unmasked(v, mask) == v

Masked(v, mask) == MaskFrom(v, mask, 1)

\* the triple with the first rows of x, as many as the column has present
TripleFirstRows(x, y, i) ==
  LET yi == Column(y, i)
      available == Available(yi)
      ysub == Masked(yi, available)
  IN [x |-> SubSeq(x, 1, Len(ysub)), i |-> i, y |-> ysub]

\* the triple yielded for the 0-based column i
Triple(x, y, i) ==
  LET yi == Column(y, i)
      available == Available(yi)
  IN [x |-> Masked(x, available), i |-> i, y |-> Masked(yi, available)]

\* the sequence of triples the generator yields, for i in range(p)
PerOutput(x, y) == [k \in 1..y.p |-> Triple(x, y, k - 1)]

(***************************************************************************)
(* _matmul(a, x)                                                           *)
(***************************************************************************)
\* the inner loop with the weight a[i, 0] for every term
RECURSIVE MatmulRowFirstWeight(_, _, _, _, _, _)
MatmulRowFirstWeight(g, a, x, i, j, acc) ==
  IF j > a.p THEN [g |-> g, v |-> acc, err |-> FALSE]
  ELSE IF j > Len(x) THEN [g |-> g, v |-> acc, err |-> TRUE]
  ELSE LET t == Mul(g, a.d[i][1], x[j])
           s == IF acc = 0 THEN Shift(t.g, 0, t.id) ELSE Add(t.g, acc, t.id)
       IN MatmulRowFirstWeight(s.g, a, x, i, j + 1, s.id)

\* the inner loop over j for row i; acc is out[i], 0 while it is still the
\* integer 0.  x[j] raises IndexError when j is past the end of x.
RECURSIVE MatmulRow(_, _, _, _, _, _)
MatmulRow(g, a, x, i, j, acc) ==
  IF j > a.p THEN [g |-> g, v |-> acc, err |-> FALSE]
  ELSE IF j > Len(x) THEN [g |-> g, v |-> acc, err |-> TRUE]
  ELSE LET t == Mul(g, a.d[i][j], x[j])
           s == IF acc = 0 THEN Shift(t.g, 0, t.id) ELSE Add(t.g, acc, t.id)
       IN MatmulRow(s.g, a, x, i, j + 1, s.id)

\* the outer loop over i
RECURSIVE MatmulRows(_, _, _, _, _)
MatmulRows(g, a, x, i, acc) ==
  IF i > a.n THEN [g |-> g, out |-> acc, err |-> FALSE]
  ELSE LET row == MatmulRow(g, a, x, i, 1, 0)
       IN IF row.err THEN [g |-> row.g, out |-> acc, err |-> TRUE]
          ELSE MatmulRows(row.g, a, x, i + 1, Append(acc, row.v))

\* the outer loop over range(n - 1)
MatmulShort(g, a, x) == MatmulRows(g, [a EXCEPT !.n = a.n - 1], x, 1, <<>>)

Matmul(g, a, x) == MatmulRows(g, a, x, 1, <<>>)

(***************************************************************************)
(* ILMMPP.__init__                                                         *)
(***************************************************************************)
\* xs = [GP(k, graph=graph) for k in kernels]
RECURSIVE LatentsFrom(_, _, _, _)
LatentsFrom(g, kernels, i, acc) ==
  IF i > Len(kernels) THEN [g |-> g, ids |-> acc]
  ELSE LET p == NewGP(g, kernels[i])
       IN LatentsFrom(p.g, kernels, i + 1, Append(acc, p.id))

Latents(g, kernels) == LatentsFrom(g, kernels, 1, <<>>)

\* xs_noisy = [x + GP(noises_latent[i] * Delta(), graph) for i, x in
\* enumerate(xs)]; noises_latent[i] raises IndexError past the end
RECURSIVE NoisyFrom(_, _, _, _, _)
NoisyFrom(g, xs, noises_latent, i, acc) ==
  IF i > Len(xs) THEN [g |-> g, ids |-> acc, err |-> FALSE]
  ELSE IF i > Len(noises_latent) THEN [g |-> g, ids |-> acc, err |-> TRUE]
  ELSE LET e == NewGP(g, Delta(noises_latent[i]))
           s == Add(e.g, xs[i], e.id)
       IN NoisyFrom(s.g, xs, noises_latent, i + 1, Append(acc, s.id))

NoisyLatents(g, xs, noises_latent) == NoisyFrom(g, xs, noises_latent, 1, <<>>)

\* self.ys = [f + GP(noise_obs * Delta(), graph) for f in fs_noisy]
RECURSIVE ObservedFrom(_, _, _, _, _)
ObservedFrom(g, fs_noisy, noise_obs, i, acc) ==
  IF i > Len(fs_noisy) THEN [g |-> g, ids |-> acc]
  ELSE LET e == NewGP(g, Delta(noise_obs))
           s == Add(e.g, fs_noisy[i], e.id)
       IN ObservedFrom(s.g, fs_noisy, noise_obs, i + 1, Append(acc, s.id))

Observed(g, fs_noisy, noise_obs) == ObservedFrom(g, fs_noisy, noise_obs, 1, <<>>)

\* the second constructor, on the graph object gid whose contents are g.
\* parent is history: the model this one was conditioned from, 0 for none.
InitILMMPP(gid, g, xs, h, noise_obs, noises_latent, parent) ==
  LET noisy == NoisyLatents(g, xs, noises_latent)
      fs == Matmul(noisy.g, h, xs)
      fs_noisy == Matmul(fs.g, h, noisy.ids)
      ys == Observed(fs_noisy.g, fs_noisy.out, noise_obs)
      err == noisy.err \/ fs.err \/ fs_noisy.err
  IN [err |-> err,
      g |-> IF noisy.err THEN noisy.g
            ELSE IF fs.err THEN fs.g
            ELSE IF fs_noisy.err THEN fs_noisy.g ELSE ys.g,
      self |-> IF err THEN <<>>
               ELSE <<[graph |-> gid, xs |-> xs, h |-> h,
                       noise_obs |-> noise_obs,
                       noises_latent |-> noises_latent,
                       fs |-> fs.out, ys |-> ys.ids, parent |-> parent]>>]

\* the first constructor: a fresh Graph, one process per kernel, then the
\* second constructor
NewILMMPP(gid, kernels, h, noise_obs, noises_latent) ==
  LET lat == Latents(<<>>, kernels)
  IN InitILMMPP(gid, lat.g, lat.ids, h, noise_obs, noises_latent, 0)


(***************************************************************************)
(* The state: the heap of Graph objects, the ILMMPP objects built so far,  *)
(* the data set the caller holds, and the outcome of the last call.        *)
(***************************************************************************)
NumRoots == Cardinality({k \in 1..Len(models) : models[k].parent = 0})

Init ==
  /\ graphs = <<>>
  /\ models = <<>>
  /\ data = NoData
  /\ out = [op |-> "none"]

\* the caller holds some data set of at most MaxN rows and MaxP columns
InitData ==
  /\ graphs = <<>>
  /\ models = <<>>
  /\ data \in Data(0..MaxN, 1..MaxP)
  /\ out = [op |-> "none"]

\* ILMMPP(kernels, h, noise_obs, noises_latent), with at most cap objects
\* alive.  When the constructor raises, no model exists and the fresh graph
\* is unreachable.
ConstructFrom(cap, kernels, h, noise_obs, noises_latent) ==
  /\ Len(models) < cap
  /\ NumRoots < MaxRoots
  /\ LET gid == Len(graphs) + 1
         new == NewILMMPP(gid, kernels, h, noise_obs, noises_latent)
     IN /\ out' = [op |-> "construct", err |-> new.err,
                   nkernels |-> Len(kernels), hrows |-> h.n, hcols |-> h.p,
                   nnoises |-> Len(noises_latent),
                   model |-> IF new.err THEN 0 ELSE Len(models) + 1]
        /\ IF new.err
           THEN UNCHANGED <<graphs, models>>
           ELSE /\ graphs' = Append(graphs, new.g)
                /\ models' = models \o new.self
  /\ UNCHANGED data

\* construction from inputs of matching shapes
ConstructValid(cap) ==
  \E m \in 1..MaxM :
    \E h \in MixingMatrices(1..MaxP, {m}), noise_obs \in NoiseObsVals :
      ConstructFrom(cap, Kernels(m), h, noise_obs, Noises(m))

Construct == ConstructValid(MaxModels)

ConstructQueried == ConstructValid(MaxQueried)

\* a single model, for the calls on one data set
ConstructOne == ConstructValid(1)

\* construction from inputs of any shapes
ConstructAny ==
  \E m \in 1..MaxM, len \in 0..(MaxM + 1) :
    \E h \in MixingMatrices(1..MaxP, 1..MaxM), noise_obs \in NoiseObsVals :
      ConstructFrom(MaxModels, Kernels(m), h, noise_obs, Noises(len))

(***************************************************************************)
(* logpdf, condition, predict                                              *)
(***************************************************************************)
\* [(self.ys[i](x), y) for x, i, y in _per_output(x, y)]: the pairs handed to
\* Obs.  self.ys[i] raises IndexError when y has more columns than there are
\* outputs.
ObsPairs(self, x, y) ==
  LET t == PerOutput(x, y)
  IN IF y.p > Len(self.ys) THEN [err |-> TRUE, obs |-> <<>>]
     ELSE [err |-> FALSE,
           obs |-> [k \in 1..y.p |->
                     [proc |-> self.ys[t[k].i + 1], x |-> t[k].x, y |-> t[k].y]]]

\* [x | obs for x in self.xs]
RECURSIVE ConditionedFrom(_, _, _, _, _)
ConditionedFrom(g, xs, obs, i, acc) ==
  IF i > Len(xs) THEN [g |-> g, ids |-> acc]
  ELSE LET p == Posterior(g, xs[i], obs)
       IN ConditionedFrom(p.g, xs, obs, i + 1, Append(acc, p.id))

Conditioned(g, xs, obs) == ConditionedFrom(g, xs, obs, 1, <<>>)

\* a fresh Graph for the conditioned model
ConditionGraphFresh(self) == Len(graphs) + 1

\* the graph handed to the constructor of the conditioned model
ConditionGraph(self) == self.graph

\* list(_per_output(x, y)) for the data set the caller holds
PerOutputCall ==
  /\ out' = [op |-> "per_output", triples |-> PerOutput(data.x, data.y)]
  /\ UNCHANGED <<graphs, models, data>>

\* self.logpdf(x, y) for the model k; the density itself is the graph's
LogpdfCall(k, x, y) ==
  LET self == models[k]
      obs == ObsPairs(self, x, y)
  IN /\ out' = [op |-> "logpdf", self |-> k, err |-> obs.err, obs |-> obs.obs,
                graph |-> IF obs.err THEN 0 ELSE self.graph]
     /\ UNCHANGED <<graphs, models, data>>

Logpdf == \E k \in 1..Len(models) : LogpdfCall(k, data.x, data.y)

\* self.condition(x, y) for the model k, with at most cap objects alive.
\* The constructor registers its processes in the graph object it is handed;
\* an index past the heap is a Graph() that is not in the heap yet.
ConditionCall(cap, k, x, y) ==
  /\ Len(models) < cap
  /\ LET self == models[k]
         obs == ObsPairs(self, x, y)
         gid == ConditionGraph(self)
         fresh == gid > Len(graphs)
         g0 == IF fresh THEN <<>> ELSE graphs[gid]
         post == Conditioned(g0, self.xs, obs.obs)
         new == InitILMMPP(gid, post.g, post.ids, self.h, self.noise_obs,
                           self.noises_latent, k)
     IN IF obs.err
        THEN /\ out' = [op |-> "condition", self |-> k, err |-> TRUE,
                        x |-> x, y |-> y, model |-> 0]
             /\ UNCHANGED <<graphs, models>>
        ELSE /\ ~new.err
             /\ out' = [op |-> "condition", self |-> k, err |-> FALSE,
                        x |-> x, y |-> y, model |-> Len(models) + 1]
             /\ graphs' = IF fresh THEN Append(graphs, new.g)
                          ELSE [graphs EXCEPT ![gid] = new.g]
             /\ models' = models \o new.self
  /\ UNCHANGED data

ConditionOn(cap, rows) ==
  \E k \in 1..Len(models) :
    \E d \in Data(rows, {Len(models[k].ys)}) : ConditionCall(cap, k, d.x, d.y)

Condition == ConditionOn(MaxModels, 0..MaxRows)

ConditionQueried == ConditionOn(MaxQueried, 0..MaxRows)

\* condition on the data set the caller holds
ConditionData ==
  \E k \in 1..Len(models) : ConditionCall(MaxQueried, k, data.x, data.y)

\* p(x).marginals() at the points x: the mean, the lower and the upper bound
\* of the process p at each point
Marginals(p, x) ==
  << [r \in 1..Len(x) |-> [stat |-> "mean", proc |-> p, at |-> x[r]]],
     [r \in 1..Len(x) |-> [stat |-> "lower", proc |-> p, at |-> x[r]]],
     [r \in 1..Len(x) |-> [stat |-> "upper", proc |-> p, at |-> x[r]]] >>

\* the k-th sequence of zip(*ms)
Unzip(ms, k) == [j \in 1..Len(ms) |-> ms[j][k]]

\* B.stack(*vs, axis=1): the vectors become the columns
Stack1(vs) ==
  LET n == Len(vs[1])
  IN Mat(n, Len(vs), [r \in 1..n |-> [j \in 1..Len(vs) |-> vs[j][r]]])

\* the ways of passing the parameter latent
LatentArgs == {"default", "true", "false"}

\* latent=True as the default
LatentDefaultTrue(arg) == arg # "false"

\* latent=False is the default
Latent(arg) == arg = "true"

\* the processes predict summarises
PredictProcesses(self, latent) == IF latent THEN self.fs ELSE self.ys

\* self.predict(x, latent) for the model k
PredictCall(k, x, arg) ==
  LET self == models[k]
      ps == PredictProcesses(self, Latent(arg))
      ms == [j \in 1..Len(ps) |-> Marginals(ps[j], x)]
  IN /\ out' = [op |-> "predict", self |-> k, x |-> x, latent |-> arg,
                means |-> Stack1(Unzip(ms, 1)),
                lowers |-> Stack1(Unzip(ms, 2)),
                uppers |-> Stack1(Unzip(ms, 3))]
     /\ UNCHANGED <<graphs, models, data>>

Predict ==
  \E k \in 1..Len(models) :
    \E n \in 0..MaxN :
      \E x \in [1..n -> Locs], arg \in LatentArgs : PredictCall(k, x, arg)

(***************************************************************************)
(* The specifications.                                                     *)
(***************************************************************************)
\* models built from inputs of matching shapes, and conditioned
Next == Construct \/ Condition

Spec == Init /\ [][Next]_vars

\* the same, with predictions
NextPredict == ConstructQueried \/ ConditionQueried \/ Predict

SpecPredict == Init /\ [][NextPredict]_vars

\* construction from inputs of any shapes
NextCtor == ConstructAny

SpecCtor == Init /\ [][NextCtor]_vars

\* one data set, handed to _per_output, logpdf and condition
NextData == ConstructOne \/ PerOutputCall \/ Logpdf \/ ConditionData

SpecData == InitData /\ [][NextData]_vars

(***************************************************************************)
(* Reference notions the properties are stated with.                       *)
(***************************************************************************)
\* the rows at which column i (1-based) of y is present
Present(y, i) == {r \in 1..y.n : y.d[r][i] # NaN}

\* the place of the present row r among the present rows of column i
Rank(y, i, r) == Cardinality({q \in Present(y, i) : q <= r})

\* xsub and ysub are the rows of x and of column i of y at which the column
\* is present, in their original order
IsPresentPart(xsub, ysub, x, y, i) ==
  /\ Len(xsub) = Cardinality(Present(y, i))
  /\ Len(ysub) = Cardinality(Present(y, i))
  /\ \A r \in Present(y, i) :
       /\ xsub[Rank(y, i, r)] = x[r]
       /\ ysub[Rank(y, i, r)] = y.d[r][i]

\* a process as a linear combination of the processes that are not sums or
\* multiples: the sequence of its terms [c, l], weight c times process l
RECURSIVE Lin(_, _)
Lin(g, id) ==
  LET nd == g[id]
  IN CASE nd.op = "mul" ->
            LET ts == Lin(g, nd.l)
            IN [k \in 1..Len(ts) |-> [c |-> nd.c * ts[k].c, l |-> ts[k].l]]
       [] nd.op = "add" -> Lin(g, nd.l) \o Lin(g, nd.r)
       [] nd.op = "shift" ->
            (IF nd.c = 0 THEN <<>> ELSE <<[c |-> nd.c, l |-> 0]>>) \o Lin(g, nd.l)
       [] OTHER -> <<[c |-> 1, l |-> id]>>

\* the model a model descends from by condition calls
RECURSIVE Root(_)
Root(k) == IF models[k].parent = 0 THEN k ELSE Root(models[k].parent)

IsPrefix(s, t) == Len(s) <= Len(t) /\ SubSeq(t, 1, Len(s)) = s

\* the permutations of the rows 1..n
Perms(n) == {f \in [1..n -> 1..n] : \A a, b \in 1..n : f[a] = f[b] => a = b}

PermuteVec(x, f) == [r \in 1..Len(x) |-> x[f[r]]]

PermuteRows(y, f) == Mat(y.n, y.p, [r \in 1..y.n |-> y.d[f[r]]])

\* the (input location, observed value) pairs of one observation
PairSet(o) == {<<o.x[k], o.y[k]>> : k \in 1..Len(o.x)}

PairCount(o, pr) == Cardinality({k \in 1..Len(o.x) : <<o.x[k], o.y[k]>> = pr})

SamePairs(o1, o2) ==
  /\ Len(o1.x) = Len(o1.y)
  /\ Len(o2.x) = Len(o2.y)
  /\ PairSet(o1) = PairSet(o2)
  /\ \A pr \in PairSet(o1) : PairCount(o1, pr) = PairCount(o2, pr)

(***************************************************************************)
(* C1.  _per_output(x, y) yields exactly p triples, the k-th for the       *)
(* column index k - 1; the triple of a column holds the rows of x and the  *)
(* entries of the column at which the column is present, in their original *)
(* order, and as many of the one as of the other.                          *)
(***************************************************************************)
PerOutputTriples ==
  out.op = "per_output" =>
    /\ Len(out.triples) = data.y.p
    /\ \A k \in 1..data.y.p :
         /\ out.triples[k].i = k - 1
         /\ Len(out.triples[k].x) = Len(out.triples[k].y)
         /\ IsPresentPart(out.triples[k].x, out.triples[k].y, data.x, data.y, k)

\* a call on two columns, one present only in its last row (after a missing
\* one) and one with nothing missing, at unequal locations
PerOutputWitness ==
  /\ out.op = "per_output"
  /\ data.y.p = 2
  /\ data.y.n = 2
  /\ data.x[1] # data.x[2]
  /\ Present(data.y, 1) = {2}
  /\ Present(data.y, 2) = {1, 2}

(***************************************************************************)
(* C2 as claimed.  In logpdf and condition an output column of y that is   *)
(* entirely missing has no (process, value) pair in the observation set,   *)
(* and the call does not raise.                                            *)
(***************************************************************************)
\* the pairs the last logpdf or condition call handed to Obs
LastObs ==
  IF out.op = "logpdf" THEN out.obs
  ELSE graphs[models[out.model].graph][models[out.model].xs[1]].obs

LastCallOnData == out.op \in {"logpdf", "condition"}

MissingColumnUnregistered ==
  LastCallOnData =>
    \A i \in 1..data.y.p :
      (/\ data.y.n >= 1
       /\ Present(data.y, i) = {}
       /\ data.y.p = Len(models[out.self].ys)) =>
        /\ ~out.err
        /\ \A k \in 1..Len(LastObs) : LastObs[k].proc # models[out.self].ys[i]

(***************************************************************************)
(* C2 as amended.  In logpdf and condition on an n-by-p matrix y, the call *)
(* raises exactly when y has more columns than the model has outputs, and  *)
(* otherwise hands Obs exactly one pair per column, the i-th against       *)
(* ys[i]; the pair of an entirely missing column holds no input location   *)
(* and no value.                                                           *)
(***************************************************************************)
MissingColumnEmpty ==
  LastCallOnData =>
    /\ out.err <=> data.y.p > Len(models[out.self].ys)
    /\ ~out.err =>
         /\ Len(LastObs) = data.y.p
         /\ \A i \in 1..data.y.p :
              /\ LastObs[i].proc = models[out.self].ys[i]
              /\ Present(data.y, i) = {} =>
                   LastObs[i].x = <<>> /\ LastObs[i].y = <<>>

\* a model was conditioned on, and logpdf then called with, two rows whose
\* first column is entirely missing and whose second is not
MissingColumnWitness ==
  /\ out.op = "logpdf"
  /\ ~out.err
  /\ \E k \in 1..Len(models) : models[k].parent # 0
  /\ data.y.n = 2
  /\ data.y.p = 2
  /\ Present(data.y, 1) = {}
  /\ Present(data.y, 2) = {1, 2}

(***************************************************************************)
(* C3.  In every model, built from kernels or by condition, with m latent  *)
(* processes and a p-by-m matrix H: fs[j] is the sum over i = 1..m, in     *)
(* order, of H[j,i] * xs[i], every term present, zero weights included;    *)
(* ys[j] is the sum over i of H[j,i] * (xs[i] + e[i]) plus o[j], where     *)
(* e[i] is a white-noise process of variance noises_latent[i], the same    *)
(* for every j, and o[j] a white-noise process of variance noise_obs of    *)
(* its own.                                                                *)
(***************************************************************************)
IsWeightedSum(mdl) ==
  LET g == graphs[mdl.graph]
      m == Len(mdl.xs)
      F(j) == Lin(g, mdl.fs[j])
      Y(j) == Lin(g, mdl.ys[j])
  IN \A j \in 1..mdl.h.n :
       /\ F(j) = [i \in 1..m |-> [c |-> mdl.h.d[j][i], l |-> mdl.xs[i]]]
       /\ Len(Y(j)) = 2 * m + 1
       /\ \A i \in 1..m :
            /\ Y(j)[2 * i - 1] = [c |-> mdl.h.d[j][i], l |-> mdl.xs[i]]
            /\ Y(j)[2 * i].c = mdl.h.d[j][i]
            /\ g[Y(j)[2 * i].l].op = "gp"
            /\ g[Y(j)[2 * i].l].kern = Delta(mdl.noises_latent[i])
            /\ Y(j)[2 * i].l = Y(1)[2 * i].l
            /\ \A i2 \in 1..m : i2 # i => Y(j)[2 * i2].l # Y(j)[2 * i].l
       /\ Y(j)[2 * m + 1].c = 1
       /\ g[Y(j)[2 * m + 1].l].op = "gp"
       /\ g[Y(j)[2 * m + 1].l].kern = Delta(mdl.noise_obs)
       /\ \A j2 \in 1..mdl.h.n : j2 # j => Y(j2)[2 * m + 1].l # Y(j)[2 * m + 1].l
       /\ \A i \in 1..m : Y(j)[2 * i].l # Y(j)[2 * m + 1].l

WeightedSums == \A k \in 1..Len(models) : IsWeightedSum(models[k])

\* a model built by condition with two outputs, two latent processes, a zero
\* weight and unequal weights
WeightedSumsWitness ==
  \E k \in 1..Len(models) :
    /\ models[k].parent # 0
    /\ models[k].h.n = 2
    /\ models[k].h.p = 2
    /\ models[k].h.d[1][1] = 0
    /\ models[k].h.d[1][2] # models[k].h.d[2][1]

(***************************************************************************)
(* C4 as claimed.  Construction with a mixing matrix that has more or      *)
(* fewer columns than there are kernels fails.                             *)
(***************************************************************************)
ColumnMismatchFails ==
  (out.op = "construct" /\ out.hcols # out.nkernels) => out.err

(***************************************************************************)
(* C5 as claimed.  Construction with a latent-noise vector longer or       *)
(* shorter than the number of latent processes fails.                      *)
(***************************************************************************)
NoiseMismatchFails ==
  (out.op = "construct" /\ out.nnoises # out.nkernels) => out.err

(***************************************************************************)
(* C6.  A model built by condition has the graph object, the H, the        *)
(* noise_obs and the noises_latent of the model it was conditioned from,   *)
(* and its i-th latent process is the i-th latent process of that model    *)
(* conditioned on the observations built from (x, y): one pair per column  *)
(* of y, the i-th against ys[i] of that model with the present rows.       *)
(* Hence every model has the graph, H, noises and number of latent         *)
(* processes of the model it descends from.                                *)
(***************************************************************************)
IsObsOf(obs, ys, x, y) ==
  /\ Len(obs) = y.p
  /\ \A i \in 1..y.p :
       /\ obs[i].proc = ys[i]
       /\ IsPresentPart(obs[i].x, obs[i].y, x, y, i)

SameParameters(a, b) ==
  /\ a.graph = b.graph
  /\ a.h = b.h
  /\ a.noise_obs = b.noise_obs
  /\ a.noises_latent = b.noises_latent
  /\ Len(a.xs) = Len(b.xs)

ConditionKeepsParameters ==
  /\ \A k \in 1..Len(models) :
       /\ SameParameters(models[k], models[Root(k)])
       /\ models[k].parent # 0 =>
            /\ SameParameters(models[k], models[models[k].parent])
            /\ \A i \in 1..Len(models[k].xs) :
                 LET nd == graphs[models[k].graph][models[k].xs[i]]
                 IN /\ nd.op = "post"
                    /\ nd.l = models[models[k].parent].xs[i]
                    /\ nd.obs = graphs[models[k].graph][models[k].xs[1]].obs
  /\ (out.op = "condition" /\ ~out.err) =>
       /\ models[out.model].parent = out.self
       /\ IsObsOf(graphs[models[out.model].graph][models[out.model].xs[1]].obs,
                  models[out.self].ys, out.x, out.y)

\* a model conditioned twice, with two latent processes, the second time on
\* one row
ConditionWitness ==
  /\ out.op = "condition"
  /\ models[out.self].parent # 0
  /\ Len(models[out.model].xs) = 2
  /\ out.y.n = 1

(***************************************************************************)
(* C7 as claimed.  A condition call leaves everything reachable from the   *)
(* model it is called on unchanged, the contents of its graph included.    *)
(***************************************************************************)
ParentStateUnchanged ==
  [][\A k \in 1..Len(models) :
       /\ models'[k] = models[k]
       /\ graphs'[models[k].graph] = graphs[models[k].graph]]_vars

(***************************************************************************)
(* C7 as amended.  No call changes a field of an existing model (graph,    *)
(* xs, h, noise_obs, noises_latent, fs, ys) or a process already in a      *)
(* graph; a graph only grows, by the processes appended to it.             *)
(***************************************************************************)
ParentFieldsUnchanged ==
  [][/\ \A k \in 1..Len(models) : Len(models') >= k /\ models'[k] = models[k]
     /\ \A q \in 1..Len(graphs) :
          Len(graphs') >= q /\ IsPrefix(graphs[q], graphs'[q])]_vars

\* a conditioned model has itself been conditioned
ParentWitness ==
  /\ out.op = "condition"
  /\ ~out.err
  /\ models[out.self].parent # 0
  /\ out.y.n = 1
  /\ Present(out.y, 1) = {1}

(***************************************************************************)
(* C8.  Every model built from inputs of matching shapes, and every model  *)
(* reached from it by condition calls, has as many fs and as many ys as H  *)
(* has rows, and as many latent processes as H has columns.                *)
(***************************************************************************)
ShapesAgree ==
  \A k \in 1..Len(models) :
    /\ Len(models[k].fs) = models[k].h.n
    /\ Len(models[k].ys) = models[k].h.n
    /\ Len(models[k].xs) = models[k].h.p

\* a model conditioned twice whose H is not square
ShapesWitness ==
  \E k \in 1..Len(models) :
    /\ models[k].parent # 0
    /\ models[models[k].parent].parent # 0
    /\ models[k].h.n = 2
    /\ models[k].h.p = 1

(***************************************************************************)
(* C9.  predict(x, latent) at n points returns three n-by-p matrices whose *)
(* column j holds the means, the lower and the upper bounds at x of fs[j]  *)
(* when latent is true and of ys[j] when it is false or not given; the     *)
(* call changes no model and no graph.                                     *)
(***************************************************************************)
IsSummary(mat, stat, ps, x) ==
  /\ mat.n = Len(x)
  /\ mat.p = Len(ps)
  /\ \A r \in 1..Len(x) : \A j \in 1..Len(ps) :
       mat.d[r][j] = [stat |-> stat, proc |-> ps[j], at |-> x[r]]

PredictSummaries ==
  [][(out'.op = "predict" /\ out' # out) =>
       LET mdl == models[out'.self]
           ps == IF out'.latent = "true" THEN mdl.fs ELSE mdl.ys
       IN /\ models' = models
          /\ graphs' = graphs
          /\ Len(ps) = mdl.h.n
          /\ IsSummary(out'.means, "mean", ps, out'.x)
          /\ IsSummary(out'.lowers, "lower", ps, out'.x)
          /\ IsSummary(out'.uppers, "upper", ps, out'.x)]_vars

\* a prediction, latent not given, of a conditioned model with two outputs
\* and one latent process, at two unequal points
PredictWitness ==
  /\ out.op = "predict"
  /\ out.latent = "default"
  /\ models[out.self].h.p = 1
  /\ models[out.self].parent # 0
  /\ models[out.self].h.n = 2
  /\ Len(out.x) = 2
  /\ out.x[1] # out.x[2]

(***************************************************************************)
(* C10.  For every permutation of the rows of x and y jointly, logpdf      *)
(* hands Obs, for every output i, a pair against the same ys[i] with the   *)
(* same collection of (input location, observed value) pairs.              *)
(***************************************************************************)
LogpdfPermutationInvariant ==
  (out.op = "logpdf" /\ ~out.err) =>
    \A f \in Perms(data.y.n) :
      LET permuted == ObsPairs(models[out.self], PermuteVec(data.x, f),
                               PermuteRows(data.y, f))
      IN /\ ~permuted.err
         /\ Len(permuted.obs) = Len(out.obs)
         /\ \A i \in 1..Len(out.obs) :
              /\ permuted.obs[i].proc = out.obs[i].proc
              /\ SamePairs(permuted.obs[i], out.obs[i])

\* a logpdf call on two rows at unequal locations, one column present in one
\* row only
LogpdfPermutationWitness ==
  /\ out.op = "logpdf"
  /\ ~out.err
  /\ data.y.n = 2
  /\ data.y.p = 2
  /\ data.x[1] # data.x[2]
  /\ Present(data.y, 1) = {1}
  /\ Present(data.y, 2) = {1, 2}
====
